---- MODULE Spec2Model ----
(***************************************************************************)
(* Model of backend/main.py: the clip-generation job of the two endpoints  *)
(* generate_clips_from_url and generate_clips_from_upload, with the moment *)
(* selection (find_interesting_moments) and the clip renderer              *)
(* (cut_video_with_subtitles) they call.                                   *)
(*                                                                         *)
(* Spec is one job from the request to its response.  SpecSubtitle is one  *)
(* call of create_subtitle_file.  SpecConc is two jobs served at the same  *)
(* time, with the files they write and remove under CLIPS_DIR.             *)
(*                                                                         *)
(* Times are Python floats.  A float is modelled as a binary floating      *)
(* point number with Precision significant bits whose smallest step is     *)
(* 2^-FracBits second; a value is held as its integer number of such       *)
(* steps ("quanta").  Every arithmetic operation rounds its exact result   *)
(* to the nearest representable value, ties to even, as IEEE-754 does.     *)
(***************************************************************************)
EXTENDS Integers, Sequences, FiniteSets, TLC

(* ---------------------------- bounds ---------------------------------- *)
Precision == 12
FracBits == 12
MaxClips == 3
MaxSegs == 2

(* ------------------------ float arithmetic ----------------------------- *)
RECURSIVE Pow2(_)
Pow2(n) == IF n <= 0 THEN 1 ELSE 2 * Pow2(n - 1)

QuantaPerSec == Pow2(FracBits)

\* the spacing of representable values around a/b >= 0 (in quanta), from u up
RECURSIVE UlpOf(_, _, _)
UlpOf(a, b, u) == IF a < Pow2(Precision) * u * b THEN u ELSE UlpOf(a, b, 2 * u)

\* a/b >= 0 rounded to the nearest representable value, ties to even
RoundPos(a, b) ==
    LET u == UlpOf(a, b, 1)
        q == a \div (b * u)
        r == a - q * b * u
        m == IF 2 * r < b * u THEN q
             ELSE IF 2 * r > b * u THEN q + 1
             ELSE IF q % 2 = 0 THEN q ELSE q + 1
    IN  m * u

\* the float nearest to the rational a/b quanta (b > 0)
Fl(a, b) == IF a >= 0 THEN RoundPos(a, b) ELSE -RoundPos(-a, b)

\* float(n) for a Python int n
FromInt(n) == Fl(n * QuantaPerSec, 1)

FAdd(x, y) == Fl(x + y, 1)
FSub(x, y) == Fl(x - y, 1)
FMul(x, y) == Fl(x * y, QuantaPerSec)
\* x / y for y # 0 (Python raises ZeroDivisionError for y = 0)
FDiv(x, y) == IF y > 0 THEN Fl(x * QuantaPerSec, y) ELSE Fl(-(x * QuantaPerSec), -y)

FMax(x, y) == IF y > x THEN y ELSE x
FMin(x, y) == IF y < x THEN y ELSE x

(* ----------------------- find_interesting_moments ---------------------- *)
\* seq[:n] of Python, for any integer n
Slice(seq, n) ==
    LET k == IF n >= 0 THEN FMin(n, Len(seq)) ELSE FMax(Len(seq) + n, 0)
    IN  SubSeq(seq, 1, k)

\* len(seg["text"].split()): a text is held as the sequence of its words
words_count(seg) == Len(seg.text)

\* the dict appended to scored_segments for one segment (end # start)
scored_segment(seg) ==
    [start |-> seg.start, end |-> seg.end,
     score |-> FDiv(FromInt(words_count(seg)), FSub(seg.end, seg.start))]

\* list.sort(key=score, reverse=True): stable, descending
RECURSIVE InsertByScore(_, _)
InsertByScore(sorted, x) ==
    IF sorted = <<>> THEN <<x>>
    ELSE IF x.score > sorted[Len(sorted)].score
         THEN Append(InsertByScore(SubSeq(sorted, 1, Len(sorted) - 1), x),
                     sorted[Len(sorted)])
         ELSE Append(sorted, x)

RECURSIVE SortByScore(_)
SortByScore(seq) ==
    IF seq = <<>> THEN <<>>
    ELSE InsertByScore(SortByScore(SubSeq(seq, 1, Len(seq) - 1)), seq[Len(seq)])

\* the moment built from the i-th best scored segment (lines 99-106)
transcript_moment(i, seg, duration, max_duration) ==
    LET start == FMax(0, FSub(seg.start, FromInt(1)))
        end0  == FMin(duration, FAdd(start, FromInt(max_duration)))
        end   == IF FSub(end0, start) > FromInt(max_duration)
                 THEN FAdd(start, FromInt(max_duration))
                 ELSE end0
    IN  [id |-> i, start |-> start, end |-> end]

\* a uniform moment whose end is not clamped to the duration
uniform_moment_Unclamped(i, segment_duration, duration, max_duration) ==
    LET start == FMul(FromInt(i), segment_duration)
    IN  [id |-> i + 1, start |-> start, end |-> FAdd(start, FromInt(max_duration))]

\* the moment of index i (from 0) of the uniform fallback (lines 111-113)
uniform_moment(i, segment_duration, duration, max_duration) ==
    LET start == FMul(FromInt(i), segment_duration)
        end   == FMin(FAdd(start, FromInt(max_duration)), duration)
    IN  [id |-> i + 1, start |-> start, end |-> end]

\* the result of the call: raised = TRUE when it raises ZeroDivisionError
find_interesting_moments(duration, clips_count, max_duration, segments) ==
    IF Len(segments) > 0
    THEN IF \E k \in 1..Len(segments) : FSub(segments[k].end, segments[k].start) = 0
         THEN [raised |-> TRUE, moments |-> <<>>]
         ELSE LET scored == SortByScore([k \in 1..Len(segments) |-> scored_segment(segments[k])])
                  top    == Slice(scored, clips_count)
              IN  [raised |-> FALSE,
                   moments |-> [i \in 1..Len(top) |->
                                  transcript_moment(i, top[i], duration, max_duration)]]
    ELSE IF clips_count = 0
         THEN [raised |-> TRUE, moments |-> <<>>]
         ELSE LET segment_duration == FDiv(duration, FromInt(clips_count))
              IN  [raised |-> FALSE,
                   moments |-> [i \in 1..FMax(clips_count, 0) |->
                                  uniform_moment(i - 1, segment_duration, duration, max_duration)]]

(* ------------------------- create_subtitle_file ------------------------ *)
\* x // y and x % y of two floats, x >= 0 and y > 0
FFloorDiv(x, y) == Fl((x \div y) * QuantaPerSec, 1)
FMod(x, y) == x % y

\* x * n for a Python int n (n is converted to float first)
FMulInt(x, n) ==
    IF FromInt(n) = n * QuantaPerSec THEN Fl(x * n, 1) ELSE FMul(x, FromInt(n))

\* int(x): the float truncated towards zero
\* a conversion that rounds to the nearest integer instead of truncating
ToInt_Nearest(x) == (x + QuantaPerSec \div 2) \div QuantaPerSec

ToInt(x) == IF x >= 0 THEN x \div QuantaPerSec ELSE -((-x) \div QuantaPerSec)

\* a string is held as the sequence of its characters
DigitChars == <<"0", "1", "2", "3", "4", "5", "6", "7", "8", "9">>

RECURSIVE Digits(_)
Digits(n) ==
    IF n < 10 THEN <<DigitChars[n + 1]>>
    ELSE Append(Digits(n \div 10), DigitChars[(n % 10) + 1])

RECURSIVE ZeroPad(_, _)
ZeroPad(str, width) == IF Len(str) >= width THEN str ELSE ZeroPad(<<"0">> \o str, width)

\* f"{n:0{width}d}" for an int n >= 0
FormatInt(n, width) == ZeroPad(Digits(n), width)

\* the SRT timecode HH:MM:SS,mmm of lines 129-130, for a float t >= 0
timecode(t) ==
    FormatInt(ToInt(FFloorDiv(t, FromInt(3600))), 2) \o <<":">>
      \o FormatInt(ToInt(FFloorDiv(FMod(t, FromInt(3600)), FromInt(60))), 2) \o <<":">>
      \o FormatInt(ToInt(FMod(t, FromInt(60))), 2) \o <<",">>
      \o FormatInt(ToInt(FMulInt(FMod(t, FromInt(1)), 1000)), 3)

\* a filter that keeps every segment overlapping the window
relevant_segments_Overlapping(segs, start_time, end_time) ==
    SelectSeq(segs, LAMBDA g : g.end > start_time /\ g.start < end_time)

\* relevant_segments: the segments inside the window, in transcript order
relevant_segments(segs, start_time, end_time) ==
    SelectSeq(segs, LAMBDA g : g.start >= start_time /\ g.end <= end_time)

\* the cue written for the i-th relevant segment (lines 123-134)
cue(i, seg, start_time) ==
    LET start == FSub(seg.start, start_time)
        end   == FSub(seg.end, start_time)
    IN  [n |-> i, start |-> start, end |-> end,
         start_str |-> timecode(start), end_str |-> timecode(end),
         text |-> seg.text]

\* the cues create_subtitle_file writes to the caption file
create_subtitle_file(segs, start_time, end_time) ==
    LET relevant == relevant_segments(segs, start_time, end_time)
    IN  [i \in 1..Len(relevant) |-> cue(i, relevant[i], start_time)]

(* ------------------------------ inputs --------------------------------- *)
Sec(n) == n * QuantaPerSec
\* float("0.ddd"): the float nearest to thousandths / 1000 seconds
Millis(thousandths) == Fl(thousandths * QuantaPerSec, 1000)

Modes == {"url", "upload"}
Platforms == {"youtube", "tiktok"}
ClipsCounts == (-1)..MaxClips
MaxDurations == {5, 8}
\* durations ffprobe may report, in seconds
Durations == {Sec(0), Sec(4), Sec(13)}
JobIds == {"a1b2c3d4"}

\* segments the transcription may return
SegmentPool ==
    { [text |-> <<"a", "b", "c">>, start |-> Sec(0), end |-> Sec(0)],
      [text |-> <<"hello", "world">>, start |-> Sec(0), end |-> Sec(2)],
      [text |-> <<"one", "two", "three">>, start |-> Sec(3), end |-> Sec(4)],
      [text |-> <<"uh">>, start |-> Millis(292), end |-> Sec(1)],
      [text |-> <<"late">>, start |-> Sec(14), end |-> Sec(15)] }

Transcripts == UNION { [1..n -> SegmentPool] : n \in 0..MaxSegs }

(* ---------------------------- file system ------------------------------ *)
\* CLIPS_DIR / job_id
temp_dir(job) == [kind |-> "dir", job |-> job, id |-> 0]
\* temp_dir / "original.mp4" or temp_dir / "uploaded.mp4"
video_path(job) == [kind |-> "video", job |-> job, id |-> 0]
\* temp_dir / "audio.wav"
audio_path(job) == [kind |-> "audio", job |-> job, id |-> 0]
\* CLIPS_DIR / f"{job_id}_clip_{id}.mp4"
clip_path(job, id) == [kind |-> "clip", job |-> job, id |-> id]
\* output_path.replace(".mp4", ".srt")
subtitle_path(job, id) == [kind |-> "srt", job |-> job, id |-> id]

\* shutil.rmtree(temp_dir): the directory and everything inside it
rmtree(files, job) == files \ {temp_dir(job), video_path(job), audio_path(job)}

(* ------------------------------- state --------------------------------- *)
VARIABLES pc, mode, clipsCount, maxDuration, platform, job_id, fs,
          duration, segments, moments, idx, clips, response, calls, captions

\* the state of the jobs that run at the same time (see "concurrent jobs")
VARIABLES cjobs, disk, interference

concvars == <<cjobs, disk, interference>>

\* one call of create_subtitle_file: its arguments and the cues it wrote
VARIABLES sub_in, sub_out

subvars == <<sub_in, sub_out>>

jobvars == <<pc, mode, clipsCount, maxDuration, platform, job_id, fs,
             duration, segments, moments, idx, clips, response, calls, captions>>

vars == <<jobvars, concvars, subvars>>

params == <<mode, clipsCount, maxDuration, platform>>

\* the requests served at the same time, and a job that has not started
Slots == {1, 2}
IdleJob == [pc |-> "idle", job_id |-> "", subs |-> FALSE, n |-> 0, k |-> 0]

\* create_subtitle_file has not been called
NoCall == [called |-> FALSE, segments |-> <<>>, start_time |-> 0, end_time |-> 0]

\* no response sent yet
NoResponse == [status |-> 0, mode |-> "", detail |-> "", clips |-> <<>>]

\* raise HTTPException(status_code=500, detail=...)
HTTPException(detail) == [status |-> 500, mode |-> "", detail |-> detail, clips |-> <<>>]

\* the scale of cut_video_with_subtitles for a platform
dimensions(pf) == IF pf \in {"instagram", "tiktok"} THEN "1080:1920" ELSE "1920:1080"

\* entries of the log of collaborator invocations
Call(op) == [op |-> op, id |-> 0, scale |-> "", subtitles |-> FALSE]
\* the encode of moment id; subtitles: the subtitles filter is in the command
\* (subtitle_path is set and the file exists, lines 166-168)
RenderCall(id, pf, segs) ==
    [op |-> "render", id |-> id, scale |-> dimensions(pf), subtitles |-> Len(segs) > 0]

Init ==
    /\ pc = "idle"
    /\ mode = "url" /\ clipsCount = 1 /\ maxDuration = 5 /\ platform = "youtube"
    /\ job_id = ""
    /\ fs = {}
    /\ duration = 0
    /\ segments = <<>>
    /\ moments = <<>>
    /\ idx = 0
    /\ clips = <<>>
    /\ response = NoResponse
    /\ calls = <<>>
    /\ captions = <<>>
    /\ cjobs = [s \in Slots |-> IdleJob]
    /\ disk = {}
    /\ interference = {}
    /\ sub_in = NoCall
    /\ sub_out = <<>>

\* the request arrives with its parameters
Receive(m, cc, md, pf) ==
    /\ mode' = m /\ clipsCount' = cc /\ maxDuration' = md /\ platform' = pf

\* a handler that cleans up and starts the job again from the download
ExceptHandler_Retry(files, detail) ==
    /\ fs' = rmtree(files, job_id) \cup {temp_dir(job_id)}
    /\ pc' = "created"
    /\ response' = NoResponse

\* except Exception: rmtree(temp_dir) if it exists, then HTTPException(500)
ExceptHandler(files, detail) ==
    /\ fs' = rmtree(files, job_id)
    /\ pc' = "failed"
    /\ response' = HTTPException(detail)

\* an availability check made after the working directory was created
RejectNoFfmpeg_AfterMkdir ==
    /\ pc = "idle"
    /\ \E m \in Modes, cc \in ClipsCounts, md \in MaxDurations, pf \in Platforms :
          Receive(m, cc, md, pf)
    /\ \E j \in JobIds : /\ job_id' = j
                         /\ fs' = fs \cup {temp_dir(j)}
    /\ pc' = "rejected"
    /\ response' = HTTPException("FFmpeg nao esta instalado")
    /\ UNCHANGED <<captions, duration, segments, moments, idx, clips, calls>>
    /\ UNCHANGED <<concvars, subvars>>

\* check_ffmpeg() is False: HTTPException(500) before anything else
RejectNoFfmpeg ==
    /\ pc = "idle"
    /\ \E m \in Modes, cc \in ClipsCounts, md \in MaxDurations, pf \in Platforms :
          Receive(m, cc, md, pf)
    /\ pc' = "rejected"
    /\ response' = HTTPException("FFmpeg nao esta instalado")
    /\ UNCHANGED <<captions, job_id, fs, duration, segments, moments, idx, clips, calls>>
    /\ UNCHANGED <<concvars, subvars>>

\* check_ffmpeg() is True: job_id, temp_dir.mkdir(exist_ok=True)
CreateJob ==
    /\ pc = "idle"
    /\ \E m \in Modes, cc \in ClipsCounts, md \in MaxDurations, pf \in Platforms :
          Receive(m, cc, md, pf)
    /\ \E j \in JobIds : /\ job_id' = j
                         /\ fs' = fs \cup {temp_dir(j)}
    /\ pc' = "created"
    /\ UNCHANGED <<captions, duration, segments, moments, idx, clips, response, calls>>
    /\ UNCHANGED <<concvars, subvars>>

\* step 1: download_video_from_url, or the upload written to uploaded.mp4
FetchOk ==
    /\ pc = "created"
    /\ calls' = Append(calls, Call("fetch"))
    /\ fs' = fs \cup {video_path(job_id)}
    /\ pc' = "fetched"
    /\ UNCHANGED <<captions, params, job_id, duration, segments, moments, idx, clips, response>>
    /\ UNCHANGED <<concvars, subvars>>

\* the download (or the write) raises; a partial file may have been written
FetchFail ==
    /\ pc = "created"
    /\ calls' = Append(calls, Call("fetch"))
    /\ \E partial \in SUBSET {video_path(job_id)} : ExceptHandler(fs \cup partial, "fetch")
    /\ UNCHANGED <<captions, params, job_id, duration, segments, moments, idx, clips>>
    /\ UNCHANGED <<concvars, subvars>>

\* step 2: get_video_duration returns a float
ProbeOk ==
    /\ pc = "fetched"
    /\ calls' = Append(calls, Call("probe"))
    /\ \E d \in Durations : duration' = d
    /\ pc' = "probed"
    /\ UNCHANGED <<captions, params, job_id, fs, segments, moments, idx, clips, response>>
    /\ UNCHANGED <<concvars, subvars>>

\* ffprobe prints no JSON duration: json.loads / KeyError raises
ProbeFail ==
    /\ pc = "fetched"
    /\ calls' = Append(calls, Call("probe"))
    /\ ExceptHandler(fs, "probe")
    /\ UNCHANGED <<captions, params, job_id, duration, segments, moments, idx, clips>>
    /\ UNCHANGED <<concvars, subvars>>

\* step 3, check_whisper() is False: segments stays []
SkipTranscription ==
    /\ pc = "probed"
    /\ segments' = <<>>
    /\ pc' = "transcribed"
    /\ UNCHANGED <<captions, params, job_id, fs, duration, moments, idx, clips, response, calls>>
    /\ UNCHANGED <<concvars, subvars>>

\* step 3, check_whisper() is True: extract_audio writes audio.wav
ExtractOk ==
    /\ pc = "probed"
    /\ calls' = Append(calls, Call("extract"))
    /\ fs' = fs \cup {audio_path(job_id)}
    /\ pc' = "extracted"
    /\ UNCHANGED <<captions, params, job_id, duration, segments, moments, idx, clips, response>>
    /\ UNCHANGED <<concvars, subvars>>

ExtractFail ==
    /\ pc = "probed"
    /\ calls' = Append(calls, Call("extract"))
    /\ \E partial \in SUBSET {audio_path(job_id)} : ExceptHandler(fs \cup partial, "extract")
    /\ UNCHANGED <<captions, params, job_id, duration, segments, moments, idx, clips>>
    /\ UNCHANGED <<concvars, subvars>>

\* a transcription step whose cleanup removes the source video as well
TranscribeOk_RemovesVideo ==
    /\ pc = "extracted"
    /\ calls' = Append(calls, Call("transcribe"))
    /\ \E t \in Transcripts : segments' = t
    /\ fs' = fs \ {audio_path(job_id), video_path(job_id)}
    /\ pc' = "transcribed"
    /\ UNCHANGED <<captions, params, job_id, duration, moments, idx, clips, response>>
    /\ UNCHANGED <<concvars, subvars>>

\* transcribe_audio returns the segments, then os.remove(audio_path)
TranscribeOk ==
    /\ pc = "extracted"
    /\ calls' = Append(calls, Call("transcribe"))
    /\ \E t \in Transcripts : segments' = t
    /\ fs' = fs \ {audio_path(job_id)}
    /\ pc' = "transcribed"
    /\ UNCHANGED <<captions, params, job_id, duration, moments, idx, clips, response>>
    /\ UNCHANGED <<concvars, subvars>>

\* the model load or the transcription raises (anything but ImportError)
TranscribeFail ==
    /\ pc = "extracted"
    /\ calls' = Append(calls, Call("transcribe"))
    /\ ExceptHandler(fs, "transcribe")
    /\ UNCHANGED <<captions, params, job_id, duration, segments, moments, idx, clips>>
    /\ UNCHANGED <<concvars, subvars>>

\* step 4: find_interesting_moments returns
SelectOk ==
    /\ pc = "transcribed"
    /\ LET r == find_interesting_moments(duration, clipsCount, maxDuration, segments)
       IN  /\ ~r.raised
           /\ moments' = r.moments
    /\ idx' = 1
    /\ clips' = <<>>
    /\ pc' = "rendering"
    /\ UNCHANGED <<captions, params, job_id, fs, duration, segments, response, calls>>
    /\ UNCHANGED <<concvars, subvars>>

\* step 4: find_interesting_moments raises ZeroDivisionError
SelectFail ==
    /\ pc = "transcribed"
    /\ find_interesting_moments(duration, clipsCount, maxDuration, segments).raised
    /\ ExceptHandler(fs, "division by zero")
    /\ UNCHANGED <<captions, params, job_id, duration, segments, moments, idx, clips, calls>>
    /\ UNCHANGED <<concvars, subvars>>

\* a caption file written for every moment, empty transcript included
written_captions_Always(log, job, moment, segs) ==
    Append(log, [path |-> subtitle_path(job, moment.id),
                 start_time |-> moment.start, end_time |-> moment.end,
                 cues |-> create_subtitle_file(segs, moment.start, moment.end)])

\* the caption files written so far, with the one cut_video_with_subtitles
\* writes for a moment when segments is non-empty (lines 151-153)
written_captions(log, job, moment, segs) ==
    IF Len(segs) > 0
    THEN Append(log, [path |-> subtitle_path(job, moment.id),
                      start_time |-> moment.start, end_time |-> moment.end,
                      cues |-> create_subtitle_file(segs, moment.start, moment.end)])
    ELSE log

\* the files after cut_video_with_subtitles returns for moment id:
\* the caption file is written when segments is non-empty, the clip is
\* encoded, the caption file is removed
cut_video_with_subtitles(files, job, id, segs) ==
    LET withSrt == IF Len(segs) > 0 THEN files \cup {subtitle_path(job, id)} ELSE files
    IN  (withSrt \cup {clip_path(job, id)}) \ {subtitle_path(job, id)}

\* the files when the encode of moment id raises CalledProcessError:
\* the caption file was written, partial holds what ffmpeg left of the clip
cut_video_raises(files, job, id, segs, partial) ==
    LET withSrt == IF Len(segs) > 0 THEN files \cup {subtitle_path(job, id)} ELSE files
    IN  withSrt \cup partial

\* step 5, one iteration of the loop: the clip of moments[idx] is rendered
RenderOk ==
    /\ pc = "rendering"
    /\ idx <= Len(moments)
    /\ LET moment == moments[idx]
       IN  /\ calls' = Append(calls, RenderCall(moment.id, platform, segments))
           /\ fs' = cut_video_with_subtitles(fs, job_id, moment.id, segments)
           /\ captions' = written_captions(captions, job_id, moment, segments)
           /\ clips' = Append(clips, [id |-> moment.id, start |-> moment.start,
                                      end |-> moment.end])
    /\ idx' = idx + 1
    /\ UNCHANGED <<pc, params, job_id, duration, segments, moments, response>>
    /\ UNCHANGED <<concvars, subvars>>

\* a render failure that skips the moment and goes on with the next one
RenderFail_SkipAndContinue ==
    /\ pc = "rendering"
    /\ idx <= Len(moments)
    /\ LET moment == moments[idx]
       IN  /\ calls' = Append(calls, RenderCall(moment.id, platform, segments))
           /\ fs' = cut_video_raises(fs, job_id, moment.id, segments, {})
           /\ captions' = written_captions(captions, job_id, moment, segments)
    /\ idx' = idx + 1
    /\ UNCHANGED <<pc, params, job_id, duration, segments, moments, clips, response>>
    /\ UNCHANGED <<concvars, subvars>>

\* a render failure that is swallowed: the clip record is appended anyway
RenderFail_AppendAnyway ==
    /\ pc = "rendering"
    /\ idx <= Len(moments)
    /\ LET moment == moments[idx]
       IN  /\ calls' = Append(calls, RenderCall(moment.id, platform, segments))
           /\ fs' = cut_video_raises(fs, job_id, moment.id, segments, {})
           /\ captions' = written_captions(captions, job_id, moment, segments)
           /\ clips' = Append(clips, [id |-> moment.id, start |-> moment.start,
                                      end |-> moment.end])
    /\ idx' = idx + 1
    /\ UNCHANGED <<pc, params, job_id, duration, segments, moments, response>>
    /\ UNCHANGED <<concvars, subvars>>

\* step 5, one iteration of the loop: the encode of moments[idx] fails
RenderFail ==
    /\ pc = "rendering"
    /\ idx <= Len(moments)
    /\ LET moment == moments[idx]
       IN  /\ calls' = Append(calls, RenderCall(moment.id, platform, segments))
           /\ captions' = written_captions(captions, job_id, moment, segments)
           /\ \E partial \in SUBSET {clip_path(job_id, moment.id)} :
                 ExceptHandler(cut_video_raises(fs, job_id, moment.id, segments, partial), "render")
    /\ UNCHANGED <<params, job_id, duration, segments, moments, idx, clips>>
    /\ UNCHANGED <<concvars, subvars>>

\* the loop is over: os.remove(video_path), return {"mode", "clips"}
Finish ==
    /\ pc = "rendering"
    /\ idx > Len(moments)
    /\ fs' = fs \ {video_path(job_id)}
    /\ response' = [status |-> 200, mode |-> mode, detail |-> "", clips |-> clips]
    /\ pc' = "done"
    /\ UNCHANGED <<captions, params, job_id, duration, segments, moments, idx, clips, calls>>
    /\ UNCHANGED <<concvars, subvars>>

Next ==
    \/ RejectNoFfmpeg
    \/ CreateJob
    \/ FetchOk
    \/ FetchFail
    \/ ProbeOk
    \/ ProbeFail
    \/ SkipTranscription
    \/ ExtractOk
    \/ ExtractFail
    \/ TranscribeOk
    \/ TranscribeFail
    \/ SelectOk
    \/ SelectFail
    \/ RenderOk
    \/ RenderFail
    \/ Finish

Spec == Init /\ [][Next]_vars

(* ------------------- create_subtitle_file on its own ------------------- *)
\* segments of a transcript, for one call of create_subtitle_file
CaptionSegmentPool ==
    { [text |-> <<"hello", "world">>, start |-> Sec(0), end |-> Sec(2)],
      [text |-> <<"edge">>, start |-> Sec(2), end |-> Sec(4)],
      [text |-> <<"uh">>, start |-> Millis(292), end |-> Sec(1)],
      [text |-> <<"half">>, start |-> Sec(3), end |-> Sec(4) + Millis(500)],
      [text |-> <<"minute">>, start |-> Sec(61) + Millis(500), end |-> Sec(62)],
      [text |-> <<"hour">>, start |-> Sec(3725), end |-> Sec(3726)] }

CaptionTranscripts == UNION { [1..n -> CaptionSegmentPool] : n \in 0..MaxSegs }

\* the windows (start_time, end_time) of a moment
WindowStarts == {Sec(0), Millis(100), Sec(2)}
WindowEnds == {Sec(4), Sec(62), Sec(4000)}

\* create_subtitle_file(segments, start_time, end_time, output_path)
CallCreateSubtitleFile(segs, start_time, end_time) ==
    /\ ~sub_in.called
    /\ sub_in' = [called |-> TRUE, segments |-> segs,
                  start_time |-> start_time, end_time |-> end_time]
    /\ sub_out' = create_subtitle_file(segs, start_time, end_time)
    /\ UNCHANGED <<jobvars, concvars>>

NextSubtitle ==
    \E segs \in CaptionTranscripts, start_time \in WindowStarts, end_time \in WindowEnds :
        CallCreateSubtitleFile(segs, start_time, end_time)

SpecSubtitle == Init /\ [][NextSubtitle]_vars

(* --------------------------- concurrent jobs --------------------------- *)
\* cjobs[s]: the request served in slot s: its position (pc), its job_id,
\* whether the transcript is non-empty (subs), the number of moments (n) and
\* the index of the next moment to render (k).
\* disk: the files under CLIPS_DIR, each with the slot that wrote it last.
\* interference: the writes and removals that hit a file of another job.

\* str(uuid.uuid4())[:8]: the values two calls may return
ConcJobIds == {"a1b2c3d4", "e5f6a7b8"}

Exists(d, path) == \E f \in d : f.path = path

\* the files at these paths that slot s did not write
OfOthers(d, s, paths) == {f \in d : f.path \in paths /\ f.owner # s}

Hits(d, s, paths, kind) ==
    {[by |-> s, victim |-> f.owner, path |-> f.path, kind |-> kind] : f \in OfOthers(d, s, paths)}

\* open(path, "w"), ffmpeg -y, yt-dlp -o: the file is created or replaced
WriteFiles(d, s, paths) ==
    {f \in d : f.path \notin paths} \cup {[path |-> p, owner |-> s] : p \in paths}

\* os.remove, shutil.rmtree
RemoveFiles(d, paths) == {f \in d : f.path \notin paths}

\* what is under temp_dir
TempTree(job) == {temp_dir(job), video_path(job), audio_path(job)}

\* except Exception of slot s: rmtree(temp_dir) if it exists
CExcept(s, d, hits) ==
    LET job == cjobs[s].job_id
    IN  /\ cjobs' = [cjobs EXCEPT ![s].pc = "failed"]
        /\ IF Exists(d, temp_dir(job))
           THEN /\ disk' = RemoveFiles(d, TempTree(job))
                /\ interference' = hits \cup Hits(d, s, TempTree(job), "remove")
           ELSE /\ disk' = d
                /\ interference' = hits

\* job_id = str(uuid.uuid4())[:8]; temp_dir.mkdir(exist_ok=True)
CCreate(s, id) ==
    /\ cjobs[s].pc = "idle"
    /\ cjobs' = [cjobs EXCEPT ![s].pc = "created", ![s].job_id = id]
    /\ disk' = IF Exists(disk, temp_dir(id)) THEN disk
               ELSE WriteFiles(disk, s, {temp_dir(id)})
    /\ UNCHANGED interference
    /\ UNCHANGED <<jobvars, subvars>>

\* step 1: the video is written into temp_dir
CFetchOk(s) ==
    LET job == cjobs[s].job_id
    IN  /\ cjobs[s].pc = "created"
        /\ Exists(disk, temp_dir(job))
        /\ cjobs' = [cjobs EXCEPT ![s].pc = "fetched"]
        /\ disk' = WriteFiles(disk, s, {video_path(job)})
        /\ interference' = interference \cup Hits(disk, s, {video_path(job)}, "write")
        /\ UNCHANGED <<jobvars, subvars>>

\* steps 1 to 4: the download, the probe, the audio extraction, the
\* transcription or the selection raises
CFail(s) ==
    /\ cjobs[s].pc \in {"created", "fetched", "extracted", "transcribed"}
    /\ CExcept(s, disk, interference)
    /\ UNCHANGED <<jobvars, subvars>>

\* step 3: check_whisper() is False
CSkipTranscription(s) ==
    /\ cjobs[s].pc = "fetched"
    /\ cjobs' = [cjobs EXCEPT ![s].pc = "transcribed"]
    /\ UNCHANGED <<disk, interference>>
    /\ UNCHANGED <<jobvars, subvars>>

\* step 3: extract_audio writes temp_dir / "audio.wav"
CExtractOk(s) ==
    LET job == cjobs[s].job_id
    IN  /\ cjobs[s].pc = "fetched"
        /\ Exists(disk, temp_dir(job)) /\ Exists(disk, video_path(job))
        /\ cjobs' = [cjobs EXCEPT ![s].pc = "extracted"]
        /\ disk' = WriteFiles(disk, s, {audio_path(job)})
        /\ interference' = interference \cup Hits(disk, s, {audio_path(job)}, "write")
        /\ UNCHANGED <<jobvars, subvars>>

\* step 3: transcribe_audio returns, os.remove(audio_path)
CTranscribeOk(s, subs) ==
    LET job == cjobs[s].job_id
    IN  /\ cjobs[s].pc = "extracted"
        /\ Exists(disk, audio_path(job))
        /\ cjobs' = [cjobs EXCEPT ![s].pc = "transcribed", ![s].subs = subs]
        /\ disk' = RemoveFiles(disk, {audio_path(job)})
        /\ interference' = interference \cup Hits(disk, s, {audio_path(job)}, "remove")
        /\ UNCHANGED <<jobvars, subvars>>

\* step 4: find_interesting_moments returns n moments
CSelect(s, n) ==
    /\ cjobs[s].pc = "transcribed"
    /\ cjobs' = [cjobs EXCEPT ![s].pc = "rendering", ![s].n = n, ![s].k = 1]
    /\ UNCHANGED <<disk, interference>>
    /\ UNCHANGED <<jobvars, subvars>>

\* the caption file cut_video_with_subtitles writes for moment k
CCaptionFiles(j) == IF j.subs THEN {subtitle_path(j.job_id, j.k)} ELSE {}

\* step 5: the clip of moment k is rendered; the caption file is written
\* before the encode and removed after it
CRenderOk(s) ==
    LET j == cjobs[s]
    IN  /\ j.pc = "rendering"
        /\ j.k <= j.n
        /\ Exists(disk, video_path(j.job_id))
        /\ cjobs' = [cjobs EXCEPT ![s].k = j.k + 1]
        /\ disk' = RemoveFiles(WriteFiles(disk, s, {clip_path(j.job_id, j.k)}),
                               CCaptionFiles(j))
        /\ interference' = interference \cup
              Hits(disk, s, {clip_path(j.job_id, j.k)} \cup CCaptionFiles(j), "write")
        /\ UNCHANGED <<jobvars, subvars>>

\* step 5: the encode of moment k raises; the caption file stays
CRenderFail(s) ==
    LET j == cjobs[s]
    IN  /\ j.pc = "rendering"
        /\ j.k <= j.n
        /\ CExcept(s, WriteFiles(disk, s, CCaptionFiles(j)),
                   interference \cup Hits(disk, s, CCaptionFiles(j), "write"))
        /\ UNCHANGED <<jobvars, subvars>>

\* after the loop: os.remove(video_path), return
CFinish(s) ==
    LET j == cjobs[s]
    IN  /\ j.pc = "rendering"
        /\ j.k > j.n
        /\ Exists(disk, video_path(j.job_id))
        /\ cjobs' = [cjobs EXCEPT ![s].pc = "done"]
        /\ disk' = RemoveFiles(disk, {video_path(j.job_id)})
        /\ interference' = interference \cup Hits(disk, s, {video_path(j.job_id)}, "remove")
        /\ UNCHANGED <<jobvars, subvars>>

\* after the loop: os.remove(video_path) raises FileNotFoundError
CFinishFail(s) ==
    LET j == cjobs[s]
    IN  /\ j.pc = "rendering"
        /\ j.k > j.n
        /\ ~Exists(disk, video_path(j.job_id))
        /\ CExcept(s, disk, interference)
        /\ UNCHANGED <<jobvars, subvars>>

NextConc ==
    \E s \in Slots :
        \/ \E id \in ConcJobIds : CCreate(s, id)
        \/ CFetchOk(s)
        \/ CFail(s)
        \/ CSkipTranscription(s)
        \/ CExtractOk(s)
        \/ \E subs \in BOOLEAN : CTranscribeOk(s, subs)
        \/ \E n \in 0..MaxClips : CSelect(s, n)
        \/ CRenderOk(s)
        \/ CRenderFail(s)
        \/ CFinish(s)
        \/ CFinishFail(s)

SpecConc == Init /\ [][NextConc]_vars

(* ------------------------------ claims --------------------------------- *)
\* find_interesting_moments has returned its moments to the job
Selected == pc \in {"rendering", "done"} \/ (pc = "failed" /\ response.detail = "render")

\* 0 <= start < end <= duration and end - start <= maxDuration
MomentInBounds(m) ==
    /\ 0 <= m.start
    /\ m.start < m.end
    /\ m.end <= duration
    /\ m.end - m.start <= Sec(maxDuration)

RenderCalls == SelectSeq(calls, LAMBDA c : c.op = "render")

\* the files of kind k the job has in the file system
JobFiles(k) == {f \in fs : f.job = job_id /\ f.kind = k}

\* C1: with no transcript, duration > 0, clipsCount >= 1 and maxDuration >= 5,
\* the selection returns at most clipsCount moments, each with
\* 0 <= start < end <= duration and end - start <= maxDuration.
C1_UniformMomentsInBounds ==
    (Selected /\ segments = <<>> /\ duration > 0 /\ clipsCount >= 1 /\ maxDuration >= 5)
        => /\ Len(moments) <= clipsCount
           /\ \A k \in 1..Len(moments) : MomentInBounds(moments[k])

\* C2: with a non-empty transcript whose segments all have start < end,
\* duration > 0, clipsCount >= 1 and maxDuration >= 5, every returned moment
\* has 0 <= start < end <= duration and end - start <= maxDuration.
C2_TranscriptMomentsInBounds ==
    (/\ Selected
     /\ Len(segments) > 0
     /\ \A k \in 1..Len(segments) : segments[k].start < segments[k].end
     /\ duration > 0 /\ clipsCount >= 1 /\ maxDuration >= 5)
        => \A k \in 1..Len(moments) : MomentInBounds(moments[k])

HasZeroDuration(segs) == \E k \in 1..Len(segs) : segs[k].end = segs[k].start
WithoutZeroDuration(segs) == SelectSeq(segs, LAMBDA g : g.end # g.start)

\* C3: a transcript holding a segment with end = start does not make the
\* selection fail; the selection returns what it returns for the transcript
\* without the zero-duration segments (stated for clipsCount >= 1 and
\* duration > 0, where nothing else can make the selection fail).
C3_ZeroDurationExcluded ==
    (/\ HasZeroDuration(segments) /\ pc \in {"rendering", "done", "failed"}
     /\ clipsCount >= 1 /\ duration > 0)
        => /\ response.detail # "division by zero"
           /\ moments = find_interesting_moments(duration, clipsCount, maxDuration,
                                                 WithoutZeroDuration(segments)).moments

NonDegenerate(segs) == Len(SelectSeq(segs, LAMBDA g : g.start < g.end))

\* C4: with a non-empty transcript the selection never returns more moments
\* than min(clipsCount, number of segments with start < end), for every
\* clipsCount, 0 and negative included (a count below 0 is read as 0).
C4_AtMostTopCandidates ==
    (Selected /\ Len(segments) > 0)
        => Len(moments) <= FMax(0, FMin(clipsCount, NonDegenerate(segments)))

\* C5: a request with clipsCount <= 0 invokes no collaborator, writes no
\* file and never ends in a successful response.
C5_NonPositiveCountRejected ==
    (pc # "idle" /\ clipsCount <= 0)
        => /\ calls = <<>>
           /\ fs \subseteq {temp_dir(job_id)}
           /\ response.status # 200

\* get_video_duration has returned the duration
Probed ==
    \/ pc \in {"probed", "extracted", "transcribed", "rendering", "done"}
    \/ pc = "failed" /\ response.detail \in {"extract", "transcribe", "division by zero", "render"}

\* C6: when the probed duration is <= 0 the selection returns no moments, no
\* render is invoked and the job does not end in a successful response.
C6_NonPositiveDurationFails ==
    (Probed /\ duration <= 0)
        => /\ moments = <<>>
           /\ RenderCalls = <<>>
           /\ response.status # 200

\* C7: when a job has failed, none of its temp artifacts exists: working
\* directory, source video, intermediate audio, caption files (stated for
\* clipsCount >= 1, a probed duration > 0 and moments with start < end).
C7_FailureRemovesTempArtifacts ==
    (/\ pc = "failed" /\ clipsCount >= 1 /\ duration > 0
     /\ \A k \in 1..Len(moments) : moments[k].start < moments[k].end)
        => /\ temp_dir(job_id) \notin fs
           /\ video_path(job_id) \notin fs
           /\ audio_path(job_id) \notin fs
           /\ JobFiles("srt") = {}

\* C8: when a job is done, the only files of the job that exist are its
\* rendered clips (stated for clipsCount >= 1 and a probed duration > 0).
C8_DoneLeavesOnlyClips ==
    (pc = "done" /\ clipsCount >= 1 /\ duration > 0) => {f \in fs : f.job = job_id} = JobFiles("clip")

\* C9 (state part): renders are invoked for moment 1, 2, 3, ... in that
\* order; a job failed in a render answers an error without clips, the failed
\* render being the last one invoked; a successful response holds a clip for
\* every selected moment.
C9_State ==
    /\ \A k \in 1..Len(RenderCalls) : RenderCalls[k].id = k
    /\ (pc = "failed" /\ response.detail = "render")
          => /\ response.status = 500
             /\ response.clips = <<>>
             /\ Len(RenderCalls) = Len(clips) + 1
    /\ response.status = 200 => Len(response.clips) = Len(moments)
    /\ Len(RenderCalls) > Len(clips) => pc = "failed"

\* C9: rendering is sequential in ascending moment id and a render failure
\* on moment k aborts the job: no render is invoked for a moment after k,
\* and the response is an error without clip records.
C9_RenderSequentialAbort ==
    /\ []C9_State
    /\ [][pc = "failed" => (calls' = calls /\ pc' = "failed" /\ response' = response)]_vars

\* the render of moment 2 of 3 has failed
C9_Witness ==
    /\ pc = "failed"
    /\ response.detail = "render"
    /\ Len(RenderCalls) = 2
    /\ Len(moments) = 3

\* C10: after a job has failed in the render of a moment k > 1, no clip
\* file of the job remains in the output directory (stated for
\* clipsCount >= 1 and a probed duration > 0).
C10_FailureDiscardsClips ==
    (/\ pc = "failed" /\ response.detail = "render" /\ Len(RenderCalls) > 1
     /\ clipsCount >= 1 /\ duration > 0)
        => JobFiles("clip") = {}

\* the selection ran: it returned moments or raised
SelectionRan == Selected \/ (pc = "failed" /\ response.detail = "division by zero")

\* C11: an empty transcript (no speech, or transcription produced nothing)
\* does not fail the job by itself (clipsCount # 0): the moments are those of
\* the uniform strategy, every render runs without a caption track and no
\* caption file is written.
C11_EmptyTranscriptFallsBack ==
    (SelectionRan /\ segments = <<>> /\ clipsCount # 0)
        => /\ response.detail # "division by zero"
           /\ \A k \in 1..Len(moments) :
                  moments[k] = uniform_moment(k - 1, FDiv(duration, FromInt(clipsCount)),
                                              duration, maxDuration)
           /\ clipsCount >= 1 => Len(moments) = clipsCount
           /\ \A k \in 1..Len(RenderCalls) : ~RenderCalls[k].subtitles
           /\ captions = <<>>
           /\ JobFiles("srt") = {}

\* the transcription ran and returned nothing, and the job rendered two clips
C11_Witness ==
    /\ pc = "done"
    /\ segments = <<>>
    /\ \E k \in 1..Len(calls) : calls[k].op = "transcribe"
    /\ Len(RenderCalls) = 2
    /\ Len(response.clips) = 2

\* the n-th cue of the file is written for segment g of the window
RebasedCue(c, n, g, start_time, end_time) ==
    /\ c.n = n
    /\ c.text = g.text
    /\ c.start = FSub(g.start, start_time)
    /\ c.end = FSub(g.end, start_time)
    /\ 0 <= c.start
    /\ c.end <= FSub(end_time, start_time)

\* C12: the caption file of a window holds exactly the segments with
\* start >= start_time and end <= end_time, in transcript order, each at
\* local_start = start - start_time and local_end = end - start_time, with
\* 0 <= local_start and local_end <= end_time - start_time (the differences
\* are float differences, as the program computes them).
C12_SubtitleRebasing ==
    sub_in.called =>
        LET inside == SelectSeq(sub_in.segments,
                                LAMBDA g : sub_in.start_time <= g.start /\ g.end <= sub_in.end_time)
        IN  /\ Len(sub_out) = Len(inside)
            /\ \A k \in 1..Len(sub_out) :
                   RebasedCue(sub_out[k], k, inside[k], sub_in.start_time, sub_in.end_time)

\* a segment that starts exactly at start_time and ends exactly at end_time is
\* kept, and the segment that ends where the window starts is dropped
C12_Witness ==
    /\ sub_in.called
    /\ sub_in.start_time = Sec(2) /\ sub_in.end_time = Sec(4)
    /\ Len(sub_in.segments) = 2
    /\ sub_in.segments[1].end = Sec(2)
    /\ sub_in.segments[2].start = Sec(2) /\ sub_in.segments[2].end = Sec(4)
    /\ Len(sub_out) = 1
    /\ sub_out[1].text = <<"edge">>
    /\ sub_out[1].end = Sec(2)

\* the slots whose job is running
Started == {s \in Slots : cjobs[s].pc \notin {"idle", "done", "failed"}}

\* C13: two jobs running at the same time never use the same working
\* directory or the same clip file names (their job_ids differ), and no write
\* or cleanup of a job hits a file of another job.
C13_ConcurrentJobsIsolated ==
    /\ \A s, t \in Started : s # t => cjobs[s].job_id # cjobs[t].job_id
    /\ interference = {}

\* the candidates of a transcript, best score first, ties in transcript order
Candidates(segs) == SortByScore([k \in 1..Len(segs) |-> scored_segment(segs[k])])

\* the moment C14 describes for the j-th candidate
CandidateMoment(j, cand) ==
    LET start == FMax(0, FSub(cand.start, FromInt(1)))
    IN  [id |-> j, start |-> start,
         end |-> FMin(duration, FAdd(start, FromInt(maxDuration)))]

\* C14: for a transcript of segments with start < end, the moments are, in
\* order, those of the first min(clipsCount, number of segments) candidates
\* by descending score (ties in transcript order); the j-th has id = j,
\* start = max(0, candidate.start - 1), end = min(duration, start + maxDuration).
C14_TranscriptDrivenResult ==
    (/\ Selected
     /\ Len(segments) > 0
     /\ \A k \in 1..Len(segments) : segments[k].start < segments[k].end)
        => /\ Len(moments) = FMax(0, FMin(clipsCount, Len(segments)))
           /\ \A j \in 1..Len(moments) :
                  moments[j] = CandidateMoment(j, Candidates(segments)[j])

\* C15: with no transcript, duration > 0 and clipsCount >= 1, exactly
\* clipsCount moments are returned, with ids 1..clipsCount in order; the
\* moment with id i+1 has start = i * (duration / clipsCount) and
\* end = min(start + maxDuration, duration), in float arithmetic.
C15_UniformResult ==
    (Selected /\ segments = <<>> /\ duration > 0 /\ clipsCount >= 1)
        => /\ Len(moments) = clipsCount
           /\ \A i \in 0..(clipsCount - 1) :
                  LET m == moments[i + 1]
                  IN  /\ m.id = i + 1
                      /\ m.start = FMul(FromInt(i), FDiv(duration, FromInt(clipsCount)))
                      /\ m.end = FMin(FAdd(m.start, FromInt(maxDuration)), duration)

\* three uniform moments of a 13 s video, the last one clamped to the duration
C15_Witness ==
    /\ Selected
    /\ segments = <<>>
    /\ duration = Sec(13)
    /\ clipsCount = 3
    /\ Len(moments) = 3
    /\ moments[2].start > 0
    /\ moments[2].end < duration
    /\ moments[3].end = duration

\* C16: the moments of the uniform fallback do not overlap: for duration > 0,
\* clipsCount >= 1 and maxDuration >= 5, a.end <= b.start for any two
\* returned moments with a.id < b.id.
C16_UniformMomentsDisjoint ==
    (Selected /\ segments = <<>> /\ duration > 0 /\ clipsCount >= 1 /\ maxDuration >= 5)
        => \A a, b \in 1..Len(moments) :
               moments[a].id < moments[b].id => moments[a].end <= moments[b].start

\* C17: a caption file created by a call of cut_video_with_subtitles no
\* longer exists when the call has exited, by return or by exception.
C17_CaptionFileReleased ==
    \A i \in 1..Len(captions) : captions[i].path \notin fs

\* the stage of the job: 0 no job yet, 1 CREATED, 2 FETCHED, 3 TRANSCRIBED or
\* SKIPPED_TRANSCRIPTION, 4 SELECTED, 5 RENDERING, 6 DONE, 7 FAILED (or the
\* request rejected before a job exists)
Stage(p, rendered) ==
    CASE p = "idle" -> 0
      [] p = "created" -> 1
      [] p \in {"fetched", "probed", "extracted"} -> 2
      [] p = "transcribed" -> 3
      [] p = "rendering" -> IF rendered = 0 THEN 4 ELSE 5
      [] p = "done" -> 6
      [] p \in {"failed", "rejected"} -> 7

\* one step of a job in the order of the stages
StageStep ==
    LET from == Stage(pc, Len(RenderCalls))
        to   == Stage(pc', Len(SelectSeq(calls', LAMBDA c : c.op = "render")))
    IN  /\ from \in {6, 7} => (pc' = pc /\ calls' = calls)
        /\ from \notin {6, 7} =>
              \/ to = 7
              \/ to = from /\ from # 5
              \/ to = from + 1 /\ to # 6
              \/ from = 5 /\ to = 5 /\ idx' = idx + 1
              \/ to = 6 /\ from \in {4, 5} /\ Len(RenderCalls) = Len(moments)

\* C18: a job goes through its stages in the order CREATED, FETCHED,
\* TRANSCRIBED or SKIPPED_TRANSCRIPTION, SELECTED, RENDERING(1..N), DONE,
\* without skipping or repeating one; FAILED is reached from any
\* non-terminal stage; after DONE or FAILED the stage does not change and no
\* collaborator is invoked again.
C18_StageOrder == [][StageStep]_vars

\* a job that went through every stage and rendered three moments
C18_Witness ==
    /\ pc = "done"
    /\ Len(RenderCalls) = 3
    /\ \E k \in 1..Len(calls) : calls[k].op = "transcribe"

\* C19: a successful response holds exactly one clip record per selected
\* moment, with ids 1..N in increasing order and the start and end of its
\* moment; a record is appended only after the render of its moment has
\* returned: the renders invoked so far are those of the records, and the
\* clip file of every record exists.
C19_ClipPerMoment ==
    /\ response.status = 200
          => /\ Len(response.clips) = Len(moments)
             /\ \A k \in 1..Len(moments) :
                    response.clips[k] = [id |-> k, start |-> moments[k].start,
                                         end |-> moments[k].end]
    /\ pc \in {"rendering", "done"}
          => /\ Len(clips) = Len(RenderCalls)
             /\ \A k \in 1..Len(clips) :
                    /\ clips[k].id = RenderCalls[k].id
                    /\ clip_path(job_id, clips[k].id) \in fs
    /\ Len(clips) <= Len(RenderCalls)

\* an upload job answered with the records of its three clips
C19_Witness ==
    /\ pc = "done"
    /\ mode = "upload"
    /\ response.status = 200
    /\ Len(response.clips) = 3
    /\ response.clips[3].start > response.clips[2].start

\* the number a sequence of decimal digits denotes
DigitValue(ch) == CHOOSE d \in 0..9 : DigitChars[d + 1] = ch

RECURSIVE Number(_)
Number(str) ==
    IF str = <<>> THEN 0
    ELSE Number(SubSeq(str, 1, Len(str) - 1)) * 10 + DigitValue(str[Len(str)])

IsDigit(ch) == \E d \in 0..9 : DigitChars[d + 1] = ch

\* str is HH:MM:SS,mmm for the time t: two digits for the hours, the minutes
\* and the seconds of the whole part of t, three digits for the milliseconds;
\* mmm is the float product (t mod 1) * 1000 with its fraction cut off
IsTimecodeOf(str, t) ==
    LET whole  == t \div QuantaPerSec
        millis == Fl((t % QuantaPerSec) * 1000, 1)
    IN  /\ Len(str) = 12
        /\ str[3] = ":" /\ str[6] = ":" /\ str[9] = ","
        /\ \A p \in (1..12) \ {3, 6, 9} : IsDigit(str[p])
        /\ Number(SubSeq(str, 1, 2)) = whole \div 3600
        /\ Number(SubSeq(str, 4, 5)) = (whole % 3600) \div 60
        /\ Number(SubSeq(str, 7, 8)) = whole % 60
        /\ Number(SubSeq(str, 10, 12)) * QuantaPerSec <= millis
        /\ millis < (Number(SubSeq(str, 10, 12)) + 1) * QuantaPerSec

\* C20: create_subtitle_file writes a time t >= 0 as HH:MM:SS,mmm with
\* HH = floor(t / 3600), MM = floor((t mod 3600) / 60), SS = floor(t mod 60),
\* each on two digits, and mmm = the milliseconds of the fractional part of t,
\* truncated, on three digits.
C20_TimecodeFormat ==
    \A k \in 1..Len(sub_out) :
        /\ IsTimecodeOf(sub_out[k].start_str, sub_out[k].start)
        /\ IsTimecodeOf(sub_out[k].end_str, sub_out[k].end)

\* a cue at 0.19 s written with its milliseconds cut off, not rounded, and a
\* cue after more than an hour
C20_Witness ==
    /\ sub_in.called
    /\ Len(sub_out) = 2
    /\ sub_out[1].start_str = <<"0", "0", ":", "0", "0", ":", "0", "0", ",", "1", "9", "1">>
    /\ 2 * ((sub_out[1].start * 1000) % QuantaPerSec) > QuantaPerSec
    /\ sub_out[2].start_str = <<"0", "1", ":", "0", "2", ":", "0", "5", ",", "0", "0", "0">>
    /\ sub_out[2].end_str = <<"0", "1", ":", "0", "2", ":", "0", "6", ",", "0", "0", "0">>

\* the collaborator invoked by the step, "" when the step invokes none
Invoked == IF Len(calls') > Len(calls) THEN calls'[Len(calls')].op ELSE ""

\* one step of a job, as to its source video
SourceVideoStep ==
    LET video == video_path(job_id)
    IN  /\ Invoked \in {"probe", "extract", "render"} => video \in fs
        /\ (video \in fs /\ video \notin fs')
              => \/ pc' = "done" /\ calls' = calls /\ Len(clips) = Len(moments)
                 \/ pc' = "failed"
        /\ pc = "failed" => (pc' = pc /\ calls' = calls /\ fs' = fs)

\* C21: in a job on its own, the source video exists at every probe, audio
\* extraction and render; it is removed only after the render of the last
\* moment has returned, or by the failure cleanup, after which the job takes
\* no further step.
C21_SourceVideoAvailable == [][SourceVideoStep]_vars

\* a job that extracted the audio, rendered two moments and then removed
\* its source video
C21_Witness ==
    /\ pc = "done"
    /\ video_path(job_id) \notin fs
    /\ \E k \in 1..Len(calls) : calls[k].op = "extract"
    /\ Len(RenderCalls) = 2
    /\ Len(segments) = 2

\* a rejected request: an error response, no job id, no file, no collaborator
Rejected ==
    pc = "rejected"
        => /\ response.status = 500
           /\ job_id = ""
           /\ fs = {}
           /\ calls = <<>>
           /\ captions = <<>>

\* C22: when check_ffmpeg() fails at the entry of a request, the request is
\* answered with an error before a job id is generated: the file system is
\* left as it was (no working directory, source, audio, caption or clip
\* file) and no fetch, probe, transcription or render is invoked, then or
\* later.
C22_RejectedWithoutFfmpeg ==
    /\ []Rejected
    /\ [][pc' = "rejected" => (fs' = fs /\ calls' = calls /\ job_id' = job_id)]_vars

\* an upload request for three clips rejected because ffmpeg is missing
C22_Witness ==
    /\ pc = "rejected"
    /\ response.detail = "FFmpeg nao esta instalado"
    /\ mode = "upload"
    /\ clipsCount = 3

====
